---------------------------- MODULE Spec2Model ----------------------------
(***************************************************************************)
(* Task delegation between the captain (agents/scripts/captain.py) and the *)
(* specialist workers (agents/scripts/specialist_agent.py).                *)
(*                                                                         *)
(* The captain sorts a batch of AgentTask values by priority and writes    *)
(* each one to /tmp/agent_tasks/<role>.json.  A specialist polls the file  *)
(* of its own role, parses it, executes the task, writes the result to     *)
(* /tmp/agent_results/<role>_result.json and unlinks the task file.        *)
(*                                                                         *)
(* Path.write_text opens the file with mode "w" (create or truncate) and   *)
(* then writes the text, so a write is two steps and the file is empty in  *)
(* between.  Every file operation may raise OSError.                       *)
(***************************************************************************)
EXTENDS Integers, Sequences, FiniteSets, TLC

\* ------------------------------------------------------------------ bounds
\* Longest batch handed to the captain when it runs next to the workers.
MaxBatch == 2
\* Longest batch handed to the captain when it runs alone.
MaxSortBatch == 4
\* Highest priority value of a batch entry.
MaxPriority == 3
\* The ghost counters saturate at this value.
MaxCount == 2

\* ------------------------------------------------------------ value spaces
\* The roles of a deployment: the agent_role values of the captain's batch.
Roles == {"qa", "security"}
\* Every name a role can be set to: AGENT_ROLE defaults to 'unknown'.
AllRoles == Roles \cup {"unknown"}
Workers == {"w1", "w2"}

\* SPECIALIST_TYPE values: the seven branches of execute_task and one value
\* that falls through to the generic branch.
SpecialistTypes ==
    {"architecture", "database", "rust-translation", "infrastructure",
     "testing", "security-audit", "api-design", "general"}

\* What task['context'] can be after json.loads:
\*   "mapping"  a mapping whose values have the types the generators expect
\*   "badtype"  a mapping with values of other types (lines_of_code a string,
\*              focus_areas / endpoints holding non-strings, source_file a
\*              number)
\*   "notmap"   not a mapping (list, null, number): .get raises AttributeError
Contexts == {"mapping", "badtype", "notmap"}

\* What get_persona_context can return: the stdout of the flashback tool
\* when it is installed and exits with 0, "" otherwise.
\* (a lookup that lets the failure of the tool propagate: no value comes back)
PersonaOutcomesRaise(installed) == IF installed THEN {"persona"} ELSE {}
PersonaOutcomes(installed) == IF installed THEN {"", "persona"} ELSE {""}

\* The description of the i-th entry of a batch; entries of one batch carry
\* distinct descriptions, as the entries of the captain's batch do.
Desc(i) == <<"task", i>>

\* AgentTask
AgentTask(r, i, c, p) ==
    [agent_role |-> r, task_description |-> Desc(i), context |-> c,
     priority |-> p]

\* The entries of a batch, before they get their descriptions.
Entries(ctxs, prios) == [agent_role : Roles, context : ctxs, priority : prios]

\* The batch of the entries f[1], ..., f[n].
MkBatch(f) ==
    [i \in DOMAIN f |->
        AgentTask(f[i].agent_role, i, f[i].context, f[i].priority)]

\* ------------------------------------------------------------- file slots
Absent == [kind |-> "absent"]
Partial == [kind |-> "partial"]
Full(d) == [kind |-> "full", data |-> d]

NoTask == [kind |-> "none"]

VARIABLES
    \* captain
    batch,        \* the batch as built, before sorting (never changes)
    tasks,        \* the captain's list `tasks`
    dpc,          \* the captain's position
    di,           \* index of the task the for loop is at
    dpayload,     \* task_payload of the running delegate_task
    dLinked,      \* the file the captain holds open is still in the directory
    task_queue,   \* self.task_queue
    session,      \* the session context the flashback tool saved in this run
    flashback,    \* whether the flashback tool is installed
    \* the two directories
    taskSlot,     \* /tmp/agent_tasks/<role>.json
    resultSlot,   \* /tmp/agent_results/<role>_result.json
    \* workers
    agent_role,   \* AGENT_ROLE of each worker
    specialist_type, \* SPECIALIST_TYPE of each worker
    wpc,          \* each worker's position
    wtask,        \* local `task`
    wresult,      \* local `result`
    wClean,       \* nobody else wrote the result file since the worker opened it
    \* history (not program state)
    pubLog,       \* payloads whose task file write returned, in order
    failedPub,    \* batch positions whose task file write raised
    cyclePubs     \* worker -> result writes that returned since its last read

dvars == <<batch, tasks, dpc, di, dpayload, dLinked, task_queue, session>>
svars == <<taskSlot, resultSlot>>
cvars == <<flashback, agent_role, specialist_type>>
wvars == <<wpc, wtask, wresult, wClean>>
hvars == <<pubLog, failedPub, cyclePubs>>
vars == <<dvars, svars, cvars, wvars, hvars>>


\* ------------------------------------------------------------ the captain
\* tasks.sort(key=lambda t: t.priority, reverse=True): list.sort is stable,
\* and with reverse=True entries of equal key keep their original order.
\* Insert t behind every entry whose priority is not lower than t's.
RECURSIVE InsertByPriority(_, _)
RECURSIVE InsertByPriorityUnstable(_, _)
\* (what sorting ascending and reversing would do: ties come out reversed)
InsertByPriorityUnstable(t, s) ==
    IF s = <<>> THEN <<t>>
    ELSE IF Head(s).priority > t.priority
         THEN <<Head(s)>> \o InsertByPriorityUnstable(t, Tail(s))
         ELSE <<t>> \o s
InsertByPriority(t, s) ==
    IF s = <<>> THEN <<t>>
    ELSE IF Head(s).priority >= t.priority
         THEN <<Head(s)>> \o InsertByPriority(t, Tail(s))
         ELSE <<t>> \o s

RECURSIVE SortByPriority(_)
SortByPriority(s) ==
    IF s = <<>> THEN <<>>
    ELSE InsertByPriority(s[Len(s)], SortByPriority(SubSeq(s, 1, Len(s) - 1)))

\* task_payload of delegate_task
TaskPayload(t, persona_context) ==
    [agent |-> t.agent_role, task |-> t.task_description,
     context |-> t.context, persona_context |-> persona_context,
     priority |-> t.priority]

\* save_session_context: True when the flashback tool ran and exited with
\* 0; False when it exited with another code or could not be run.
SaveOutcomes(installed) == IF installed THEN {TRUE, FALSE} ELSE {FALSE}

\* lines 210-215: the session context that run builds (the fixed timestamp
\* is left out).
SessionContext ==
    [agent_id |-> "captain-001", tasks_delegated |-> Len(task_queue),
     workflow |-> "commercerack_migration"]

\* lines 209-216, when the workflow has returned: the context is handed to
\* the flashback tool, which saves it or fails.
EndOfRun(finished) ==
    IF finished
    THEN \E saved \in SaveOutcomes(flashback) :
            session' = IF saved THEN Full(SessionContext) ELSE session
    ELSE session' = session

\* The batch position of a description.
Pos(d) == d[2]

\* process_commercerack_migration, line 185
CaptainSort ==
    /\ dpc = "sort"
    /\ tasks' = SortByPriority(tasks)
    /\ di' = 1
    /\ dpc' = IF Len(tasks) = 0 THEN "done" ELSE "delegate"
    /\ EndOfRun(Len(tasks) = 0)
    /\ UNCHANGED <<batch, task_queue, dpayload, dLinked, svars, cvars, wvars,
                   hvars>>

\* delegate_task up to the open() inside write_text: the persona lookup
\* (best effort, "" on failure), the payload, mkdir, and open(mode "w"),
\* which creates the file or truncates it.
DelegateOpen ==
    /\ dpc = "delegate"
    /\ \E pctx \in PersonaOutcomes(flashback) :
          dpayload' = TaskPayload(tasks[di], pctx)
    /\ taskSlot' = [taskSlot EXCEPT ![tasks[di].agent_role] = Partial]
    /\ dLinked' = TRUE
    /\ dpc' = "write"
    /\ UNCHANGED <<batch, task_queue, session,
                   tasks, di, resultSlot, cvars, wvars, hvars>>

\* mkdir or open raises OSError: nothing catches it in delegate_task,
\* process_commercerack_migration, run or main, so the captain ends.
DelegateOpenFail ==
    /\ dpc = "delegate"
    /\ failedPub' = failedPub \cup {Pos(tasks[di].task_description)}
    /\ dpc' = "crashed"
    /\ UNCHANGED <<batch, task_queue, session,
                   tasks, di, dpayload, dLinked, svars, cvars, wvars,
                   pubLog, cyclePubs>>

\* The write and close inside write_text.  If a worker unlinked the file
\* after the open, the text goes to a file that is in no directory.
\* (a write that appends: a file that was written before ends up holding
\* two texts, which do not parse)
DelegateWriteAppend ==
    /\ dpc = "write"
    /\ taskSlot' = IF ~dLinked THEN taskSlot
                   ELSE IF \E k \in 1..Len(pubLog) :
                              pubLog[k].agent = dpayload.agent
                        THEN [taskSlot EXCEPT ![dpayload.agent] = Partial]
                        ELSE [taskSlot EXCEPT ![dpayload.agent] =
                                 Full(dpayload)]
    /\ pubLog' = Append(pubLog, dpayload)
    /\ dpc' = "sleep"
    /\ UNCHANGED <<batch, task_queue, session,
                   tasks, di, dpayload, dLinked, resultSlot, cvars,
                   wvars, failedPub, cyclePubs>>
DelegateWrite ==
    /\ dpc = "write"
    /\ taskSlot' = IF dLinked
                   THEN [taskSlot EXCEPT ![dpayload.agent] = Full(dpayload)]
                   ELSE taskSlot
    /\ pubLog' = Append(pubLog, dpayload)
    /\ dpc' = "sleep"
    /\ UNCHANGED <<batch, task_queue, session,
                   tasks, di, dpayload, dLinked, resultSlot, cvars,
                   wvars, failedPub, cyclePubs>>

\* The write raises OSError: the file stays as the open left it.
DelegateWriteFail ==
    /\ dpc = "write"
    /\ failedPub' = failedPub \cup {Pos(dpayload.task)}
    /\ dpc' = "crashed"
    /\ UNCHANGED <<batch, task_queue, session,
                   tasks, di, dpayload, dLinked, svars, cvars, wvars,
                   pubLog, cyclePubs>>

\* asyncio.sleep(1), then the next iteration of the for loop or its end;
\* after the last iteration the workflow returns and run saves the session
\* context, with nothing the captain waits for in between.
\* (a captain that goes on only once the role's result file holds a result)
CaptainSleepAwait ==
    /\ dpc = "sleep"
    /\ resultSlot[dpayload.agent].kind = "full"
    /\ di' = di + 1
    /\ dpc' = IF di + 1 > Len(tasks) THEN "done" ELSE "delegate"
    /\ EndOfRun(di + 1 > Len(tasks))
    /\ UNCHANGED <<batch, task_queue, tasks, dpayload, dLinked, svars, cvars,
                   wvars, hvars>>
CaptainSleep ==
    /\ dpc = "sleep"
    /\ di' = di + 1
    /\ dpc' = IF di + 1 > Len(tasks) THEN "done" ELSE "delegate"
    /\ EndOfRun(di + 1 > Len(tasks))
    /\ UNCHANGED <<batch, task_queue, tasks, dpayload, dLinked, svars, cvars,
                   wvars, hvars>>

\* The captain's steps when no file operation raises.
CaptainOk ==
    \/ CaptainSort
    \/ DelegateOpen
    \/ DelegateWrite
    \/ CaptainSleep

\* The captain's steps when mkdir, open or write raises.
CaptainFail ==
    \/ DelegateOpenFail
    \/ DelegateWriteFail

Captain == CaptainOk \/ CaptainFail

\* ------------------------------------------------------------- the worker
\* Whether the generator selected by SPECIALIST_TYPE raises on the context.
\* review_architecture, analyze_database, setup_infrastructure and
\* create_tests only call context.get and format the values; translate_rust
\* evaluates Path(source) and loc // 50; audit_security and design_api
\* evaluate ', '.join(...).  The generic branch does not read the context.
Raises(stype, context) ==
    IF stype \in {"architecture", "database", "infrastructure", "testing"}
    THEN context = "notmap"
    ELSE IF stype \in {"rust-translation", "security-audit", "api-design"}
         THEN context \in {"badtype", "notmap"}
         ELSE FALSE

\* str(e) of the exception raised
ErrorMessage(context) ==
    IF context = "notmap" THEN "AttributeError" ELSE "TypeError"

\* The text a generator returns.
OutputOf(stype) ==
    IF stype \in SpecialistTypes \ {"general"} THEN stype
    ELSE "Generic processing"

\* lines 53-60: the result as execute_task first builds it, with status
\* "processing", output None (here "null") and no errors.
NewResult(w, task) ==
    [agent_id |-> w, agent_role |-> agent_role[w], task |-> task.task,
     status |-> "processing", output |-> "null", errors |-> <<>>]

\* execute_task: the try block sets output and status "completed", or the
\* handler sets status "error" and appends the message.
\* (a handler that swallows the exception and reports success)
execute_taskSwallow(w, task) ==
    [agent_id |-> w, agent_role |-> agent_role[w], task |-> task.task,
     status |-> "completed",
     output |-> IF Raises(specialist_type[w], task.context)
                THEN "null" ELSE OutputOf(specialist_type[w]),
     errors |-> <<>>]
execute_task(w, task) ==
    LET result == NewResult(w, task)
    IN  IF Raises(specialist_type[w], task.context)
        THEN [result EXCEPT !.status = "error",
                            !.errors = Append(@, ErrorMessage(task.context))]
        ELSE [result EXCEPT !.output = OutputOf(specialist_type[w]),
                            !.status = "completed"]

Bump(n) == IF n < MaxCount THEN n + 1 ELSE n

\* line 274: self.task_file.exists()
WorkerCheck(w) ==
    /\ wpc[w] = "check"
    /\ wpc' = [wpc EXCEPT ![w] =
                 IF taskSlot[agent_role[w]] = Absent THEN "sleep" ELSE "read"]
    /\ UNCHANGED <<dvars, svars, cvars, wtask, wresult, wClean, hvars>>

\* line 276: json.loads(self.task_file.read_text()).  A missing file raises
\* FileNotFoundError, an empty or partial one JSONDecodeError.
\* (a worker that deletes a task file it cannot parse)
WorkerReadDiscard(w) ==
    /\ wpc[w] = "read"
    /\ IF taskSlot[agent_role[w]].kind = "full"
       THEN /\ wtask' = [wtask EXCEPT ![w] = taskSlot[agent_role[w]]]
            /\ wpc' = [wpc EXCEPT ![w] = "exec"]
            /\ cyclePubs' = [cyclePubs EXCEPT ![w] = 0]
            /\ UNCHANGED <<taskSlot, dLinked>>
       ELSE /\ wpc' = [wpc EXCEPT ![w] = "errsleep"]
            /\ taskSlot' = [taskSlot EXCEPT ![agent_role[w]] = Absent]
            /\ dLinked' = IF dpc = "write" /\ dpayload.agent = agent_role[w]
                          THEN FALSE ELSE dLinked
            /\ UNCHANGED <<wtask, cyclePubs>>
    /\ UNCHANGED <<batch, task_queue, session,
                   tasks, dpc, di, dpayload, resultSlot, cvars, wresult,
                   wClean, pubLog, failedPub>>
WorkerRead(w) ==
    /\ wpc[w] = "read"
    /\ IF taskSlot[agent_role[w]].kind = "full"
       THEN /\ wtask' = [wtask EXCEPT ![w] = taskSlot[agent_role[w]]]
            /\ wpc' = [wpc EXCEPT ![w] = "exec"]
            /\ cyclePubs' = [cyclePubs EXCEPT ![w] = 0]
       ELSE /\ wpc' = [wpc EXCEPT ![w] = "errsleep"]
            /\ UNCHANGED <<wtask, cyclePubs>>
    /\ UNCHANGED <<dvars, svars, cvars, wresult, wClean, pubLog, failedPub>>

\* read_text raises OSError
WorkerReadFail(w) ==
    /\ wpc[w] = "read"
    /\ wpc' = [wpc EXCEPT ![w] = "errsleep"]
    /\ UNCHANGED <<dvars, svars, cvars, wtask, wresult, wClean, hvars>>

\* line 277: result = self.execute_task(task).  execute_task first asks
\* get_persona_context for the persona text (line 51), which it does not
\* use afterwards.
\* (the result is taken as built on lines 53-60, before the try block ran)
WorkerExecUnfinished(w) ==
    /\ wpc[w] = "exec"
    /\ \E persona_context \in PersonaOutcomes(flashback) :
          wresult' = [wresult EXCEPT ![w] = Full(NewResult(w, wtask[w].data))]
    /\ wpc' = [wpc EXCEPT ![w] = "save"]
    /\ UNCHANGED <<dvars, svars, cvars, wtask, wClean, hvars>>
WorkerExec(w) ==
    /\ wpc[w] = "exec"
    /\ \E persona_context \in PersonaOutcomes(flashback) :
          wresult' = [wresult EXCEPT ![w] =
                        Full(execute_task(w, wtask[w].data))]
    /\ wpc' = [wpc EXCEPT ![w] = "save"]
    /\ UNCHANGED <<dvars, svars, cvars, wtask, wClean, hvars>>

\* line 281, the open() inside write_text: the result file is created or
\* truncated.  A worker of the same role that holds the file open now
\* writes into an empty file.
\* (a worker that leaves an existing result file alone)
WorkerSaveOpenIfAbsent(w) ==
    /\ wpc[w] = "save"
    /\ IF resultSlot[agent_role[w]] = Absent
       THEN /\ resultSlot' = [resultSlot EXCEPT ![agent_role[w]] = Partial]
            /\ wClean' = [v \in Workers |->
                            IF v = w \/ (agent_role[v] = agent_role[w]
                                         /\ wpc[v] = "savefill")
                            THEN TRUE ELSE wClean[v]]
            /\ wpc' = [wpc EXCEPT ![w] = "savefill"]
       ELSE /\ wpc' = [wpc EXCEPT ![w] = "unlink"]
            /\ UNCHANGED <<resultSlot, wClean>>
    /\ UNCHANGED <<dvars, taskSlot, cvars, wtask, wresult, hvars>>
\* (one result file for all roles instead of <role>_result.json)
WorkerSaveOpenShared(w) ==
    /\ wpc[w] = "save"
    /\ resultSlot' = [r \in AllRoles |-> Partial]
    /\ wClean' = [v \in Workers |->
                    IF v = w \/ (agent_role[v] = agent_role[w]
                                 /\ wpc[v] = "savefill")
                    THEN TRUE ELSE wClean[v]]
    /\ wpc' = [wpc EXCEPT ![w] = "savefill"]
    /\ UNCHANGED <<dvars, taskSlot, cvars, wtask, wresult, hvars>>
WorkerSaveOpen(w) ==
    /\ wpc[w] = "save"
    /\ resultSlot' = [resultSlot EXCEPT ![agent_role[w]] = Partial]
    /\ wClean' = [v \in Workers |->
                    IF v = w \/ (agent_role[v] = agent_role[w]
                                 /\ wpc[v] = "savefill")
                    THEN TRUE ELSE wClean[v]]
    /\ wpc' = [wpc EXCEPT ![w] = "savefill"]
    /\ UNCHANGED <<dvars, taskSlot, cvars, wtask, wresult, hvars>>

\* the open raises OSError
WorkerSaveOpenFail(w) ==
    /\ wpc[w] = "save"
    /\ wpc' = [wpc EXCEPT ![w] = "errsleep"]
    /\ UNCHANGED <<dvars, svars, cvars, wtask, wresult, wClean, hvars>>

\* line 281, the write and close inside write_text.  If another worker wrote
\* the file after this worker opened it, this text lands on top of the
\* other text from offset 0: the file then holds this text, or this text
\* followed by the rest of a longer one, which does not parse.
WorkerSaveWrite(w) ==
    /\ wpc[w] = "savefill"
    /\ \E content \in {wresult[w], Partial} :
          /\ (wClean[w] \/ resultSlot[agent_role[w]] = wresult[w])
                => content = wresult[w]
          /\ resultSlot' = [resultSlot EXCEPT ![agent_role[w]] = content]
    /\ wClean' = [v \in Workers |->
                    IF v # w /\ agent_role[v] = agent_role[w]
                       /\ wpc[v] = "savefill"
                    THEN FALSE ELSE wClean[v]]
    /\ cyclePubs' = [cyclePubs EXCEPT ![w] = Bump(@)]
    /\ wpc' = [wpc EXCEPT ![w] = "unlink"]
    /\ UNCHANGED <<dvars, taskSlot, cvars, wtask, wresult, pubLog, failedPub>>

\* the write raises OSError: the file stays as the open left it
\* (a loop whose handler does not cover the write: the exception ends it)
WorkerSaveWriteFailExit(w) ==
    /\ wpc[w] = "savefill"
    /\ wpc' = [wpc EXCEPT ![w] = "stopped"]
    /\ UNCHANGED <<dvars, svars, cvars, wtask, wresult, wClean, hvars>>
WorkerSaveWriteFail(w) ==
    /\ wpc[w] = "savefill"
    /\ wpc' = [wpc EXCEPT ![w] = "errsleep"]
    /\ UNCHANGED <<dvars, svars, cvars, wtask, wresult, wClean, hvars>>

\* line 285: self.task_file.unlink() removes whatever the file holds now;
\* a missing file raises FileNotFoundError.
WorkerUnlink(w) ==
    /\ wpc[w] = "unlink"
    /\ IF taskSlot[agent_role[w]] = Absent
       THEN /\ wpc' = [wpc EXCEPT ![w] = "errsleep"]
            /\ UNCHANGED <<taskSlot, dLinked>>
       ELSE /\ taskSlot' = [taskSlot EXCEPT ![agent_role[w]] = Absent]
            /\ dLinked' = IF dpc = "write" /\ dpayload.agent = agent_role[w]
                          THEN FALSE ELSE dLinked
            /\ wpc' = [wpc EXCEPT ![w] = "check"]
    /\ UNCHANGED <<batch, task_queue, session,
                   tasks, dpc, di, dpayload, resultSlot, cvars, wtask,
                   wresult, wClean, hvars>>

\* unlink raises OSError
WorkerUnlinkFail(w) ==
    /\ wpc[w] = "unlink"
    /\ wpc' = [wpc EXCEPT ![w] = "errsleep"]
    /\ UNCHANGED <<dvars, svars, cvars, wtask, wresult, wClean, hvars>>

\* line 289: time.sleep(5) when there is no task file
WorkerSleep(w) ==
    /\ wpc[w] = "sleep"
    /\ wpc' = [wpc EXCEPT ![w] = "check"]
    /\ UNCHANGED <<dvars, svars, cvars, wtask, wresult, wClean, hvars>>

\* lines 294-296: except Exception: print, time.sleep(5), next iteration
WorkerErrSleep(w) ==
    /\ wpc[w] = "errsleep"
    /\ wpc' = [wpc EXCEPT ![w] = "check"]
    /\ UNCHANGED <<dvars, svars, cvars, wtask, wresult, wClean, hvars>>

\* KeyboardInterrupt is raised wherever the worker is.  It is not an
\* Exception, so execute_task does not catch it; line 291 catches it and
\* breaks, and inside the handler of line 294 nothing catches it.
WorkerCancel(w) ==
    /\ wpc[w] # "stopped"
    /\ wpc' = [wpc EXCEPT ![w] = "stopped"]
    /\ UNCHANGED <<dvars, svars, cvars, wtask, wresult, wClean, hvars>>

\* The steps of the loop body when no file operation raises OSError.
WorkerOk(w) ==
    \/ WorkerCheck(w)
    \/ WorkerRead(w)
    \/ WorkerExec(w)
    \/ WorkerSaveOpen(w)
    \/ WorkerSaveWrite(w)
    \/ WorkerUnlink(w)
    \/ WorkerSleep(w)
    \/ WorkerErrSleep(w)

\* The steps in which a file operation raises OSError.
WorkerFail(w) ==
    \/ WorkerReadFail(w)
    \/ WorkerSaveOpenFail(w)
    \/ WorkerSaveWriteFail(w)
    \/ WorkerUnlinkFail(w)

\* The loop as long as nobody interrupts it.
WorkerRun(w) == WorkerOk(w) \/ WorkerFail(w)

Worker(w) == WorkerRun(w) \/ WorkerCancel(w)

\* --------------------------------------------------------- specifications
\* The state after construction, for a given batch and environment.
InitWith(b, installed, roles, stypes, running) ==
    /\ batch = b
    /\ tasks = b
    /\ dpc = "sort"
    /\ di = 0
    /\ dpayload = NoTask
    /\ dLinked = FALSE
    /\ task_queue = << >>
    /\ session = NoTask
    /\ flashback = installed
    /\ taskSlot = [r \in AllRoles |-> Absent]
    /\ resultSlot = [r \in AllRoles |-> Absent]
    /\ agent_role = roles
    /\ specialist_type = stypes
    /\ wpc = [w \in Workers |-> IF w \in running THEN "check" ELSE "stopped"]
    /\ wtask = [w \in Workers |-> NoTask]
    /\ wresult = [w \in Workers |-> NoTask]
    /\ wClean = [w \in Workers |-> TRUE]
    /\ pubLog = <<>>
    /\ failedPub = {}
    /\ cyclePubs = [w \in Workers |-> 0]

\* The SPECIALIST_TYPE each role is deployed with; when the variable is not
\* set, 'general'.
DeployedType(r) ==
    IF r = "qa" THEN "testing"
    ELSE IF r = "security" THEN "security-audit" ELSE "general"

\* The AGENT_ROLE settings of the two workers, up to exchanging them.
RoleMaps ==
    { f \in [Workers -> Roles] : ~(f["w1"] = "security" /\ f["w2"] = "qa") }

\* The captain next to two workers.  Every entry carries a context that the
\* testing generator formats and the security-audit generator raises on, so
\* both outcomes of execute_task occur; the entries have equal priority.
Init ==
    \E n \in 1..MaxBatch :
      \E f \in [1..n -> Entries({"badtype"}, {MaxPriority})],
         roles \in RoleMaps :
          InitWith(MkBatch(f), FALSE, roles,
                   [w \in Workers |-> DeployedType(roles[w])], Workers)

Next == Captain \/ \E w \in Workers : Worker(w)

Spec == Init /\ [][Next]_vars


\* The captain alone: no worker is running.
InitDispatch ==
    \E n \in 1..MaxSortBatch :
      \E f \in [1..n -> Entries({"mapping"}, 1..MaxPriority)] :
          InitWith(MkBatch(f), FALSE, [w \in Workers |-> "qa"],
                   [w \in Workers |-> DeployedType("qa")], {})

NextDispatch == Captain

SpecDispatch == InitDispatch /\ [][NextDispatch]_vars

\* One worker alone, of any role and specialist type, after the captain
\* delegated a batch of one entry with any context and persona text.
InitWorker ==
    \E f \in [1..1 -> Entries(Contexts, {MaxPriority})],
       installed \in BOOLEAN, r \in Roles, stype \in SpecialistTypes :
      \E pctx \in PersonaOutcomes(installed) :
        LET b == MkBatch(f)
            payload == TaskPayload(b[1], pctx)
        IN  /\ batch = b
            /\ tasks = b
            /\ dpc = "done"
            /\ di = 2
            /\ dpayload = payload
            /\ dLinked = TRUE
            /\ task_queue = << >>
            /\ session = NoTask
            /\ flashback = installed
            /\ taskSlot = [q \in AllRoles |->
                             IF q = payload.agent THEN Full(payload)
                             ELSE Absent]
            /\ resultSlot = [q \in AllRoles |-> Absent]
            /\ agent_role = [w \in Workers |-> r]
            /\ specialist_type = [w \in Workers |-> stype]
            /\ wpc = [w \in Workers |->
                        IF w = "w1" THEN "check" ELSE "stopped"]
            /\ wtask = [w \in Workers |-> NoTask]
            /\ wresult = [w \in Workers |-> NoTask]
            /\ wClean = [w \in Workers |-> TRUE]
            /\ pubLog = <<payload>>
            /\ failedPub = {}
            /\ cyclePubs = [w \in Workers |-> 0]

NextWorker == \E w \in Workers : Worker(w)

SpecWorker == InitWorker /\ [][NextWorker]_vars

\* The captain next to two workers that nobody interrupts: every file
\* operation may still raise.
NextRun == Captain \/ \E w \in Workers : WorkerRun(w)

SpecRun == Init /\ [][NextRun]_vars

\* The captain next to one worker, with the flashback tool installed or
\* not: where it is installed a lookup returns its text or fails.
InitPersona ==
    \E n \in 1..MaxBatch :
      \E f \in [1..n -> Entries({"badtype"}, {MaxPriority})],
         installed \in BOOLEAN, r \in Roles :
          InitWith(MkBatch(f), installed, [w \in Workers |-> r],
                   [w \in Workers |-> DeployedType(r)], {"w1"})

SpecPersona == InitPersona /\ [][Next]_vars

\* The captain next to one worker when role names are not restricted to the
\* deployment's roles: the batch may name any role, and AGENT_ROLE may be
\* any name or not set at all.
InitConfig ==
    \E n \in 1..MaxBatch :
      \E f \in [1..n -> [agent_role : AllRoles, context : {"mapping"},
                         priority : {MaxPriority}]],
         r \in AllRoles :
          InitWith(MkBatch(f), FALSE, [w \in Workers |-> r],
                   [w \in Workers |-> DeployedType(r)], {"w1"})

SpecConfig == InitConfig /\ [][Next]_vars

\* The captain next to two workers when no file operation raises and nobody
\* interrupts a worker.  The captain is a running process and each worker
\* is a loop of its own process whose sleeps end, so each keeps taking its
\* steps.
NextFair == CaptainOk \/ \E w \in Workers : WorkerOk(w)

Fairness == WF_vars(CaptainOk) /\ \A w \in Workers : WF_vars(WorkerOk(w))

SpecFair == Init /\ [][NextFair]_vars /\ Fairness


\* ------------------------------------------------------------- properties
\* The payloads whose write to the task file of role r returned, in order.
Published(r) == SelectSeq(pubLog, LAMBDA p : p.agent = r)

\* The worker has read a task and has not yet removed it.
InFlight(w) == wpc[w] \in {"exec", "save", "savefill", "unlink"}

\* The worker's processing of the task it read ends with this step.
EndsProcessing(w) ==
    /\ InFlight(w)
    /\ wpc'[w] \in {"check", "errsleep"}

\* C1: whenever a worker removes the task file, the file holds the
\* descriptor that this worker read and executed.
C1_RemovesWhatItRead ==
    [][\A w \in Workers :
          (wpc[w] = "unlink" /\ wpc'[w] = "check")
             => taskSlot[agent_role[w]] = wtask[w]]_vars

\* C2: two workers of one role never hold the same pending task at the same
\* time: a task that one of them has read is not read by the other.
C2_OneReceiver ==
    \A w \in Workers, v \in Workers :
        (w # v /\ agent_role[w] = agent_role[v] /\ InFlight(w) /\ InFlight(v))
           => wtask[w] # wtask[v]

\* C3: when the processing of a task a worker read ends, the result was
\* written exactly once for it.
C3_ExactlyOneResult ==
    [][\A w \in Workers : EndsProcessing(w) => cyclePubs'[w] = 1]_vars

\* C4: when the processing of a task a worker of role R read ends, the result
\* file of R holds a result of role R that echoes the task's description.
C4_ResultEchoesTask ==
    [][\A w \in Workers :
          EndsProcessing(w) =>
             /\ resultSlot'[agent_role[w]].kind = "full"
             /\ resultSlot'[agent_role[w]].data.agent_role = agent_role[w]
             /\ resultSlot'[agent_role[w]].data.task = wtask[w].data.task]_vars

\* Entry p is published before entry q: higher priority first, and among
\* equal priorities the one that stands earlier in the batch.
Before(p, q) ==
    \/ batch[p].priority > batch[q].priority
    \/ batch[p].priority = batch[q].priority /\ p < q

\* C5: the publishes of a batch happen in descending priority, entries of
\* equal priority in batch order: at any time the published payloads are the
\* first entries of the stable descending sort of the batch, each carrying
\* the fields of its batch entry, and a captain that finished has published
\* them all.
C5_StablePriorityOrder ==
    /\ \A k \in 1..Len(pubLog) :
          /\ Pos(pubLog[k].task) \in 1..Len(batch)
          /\ pubLog[k].agent = batch[Pos(pubLog[k].task)].agent_role
          /\ pubLog[k].priority = batch[Pos(pubLog[k].task)].priority
          /\ pubLog[k].context = batch[Pos(pubLog[k].task)].context
    /\ \A j \in 1..Len(pubLog), k \in 1..Len(pubLog) :
          j < k => Before(Pos(pubLog[j].task), Pos(pubLog[k].task))
    /\ \A k \in 1..Len(pubLog), q \in 1..Len(batch) :
          (\A j \in 1..Len(pubLog) : Pos(pubLog[j].task) # q)
             => Before(Pos(pubLog[k].task), q)
    /\ dpc = "done" => Len(pubLog) = Len(batch)

\* the batch of priorities [2, 3, 1, 3] has been published to the end
C5_Witness ==
    /\ dpc = "done"
    /\ Len(batch) = 4
    /\ [i \in 1..4 |-> batch[i].priority] = <<2, 3, 1, 3>>
    /\ [i \in 1..4 |-> Pos(pubLog[i].task)] = <<2, 4, 1, 3>>

\* No worker of role r has read a task yet.
NoClaimYet(r) == \A w \in Workers : agent_role[w] = r => wtask[w] = NoTask

\* A write of the task file of role r has begun and has not returned.
WriteBegun(r) ==
    /\ dpayload # NoTask
    /\ dpayload.agent = r
    /\ \/ dpc = "write"
       \/ dpc = "crashed" /\ Pos(dpayload.task) \in failedPub

\* C6: a task file holds one descriptor and a publish replaces it: after
\* publishes to a role and before any claim, the file holds exactly the
\* payload published last (unless the next write has begun), and a worker
\* that reads the file gets the payload published last for its role, never
\* an earlier one.
C6_LastWriteWins ==
    /\ [](\A r \in Roles :
            (Len(Published(r)) >= 1 /\ NoClaimYet(r) /\ ~WriteBegun(r))
               => taskSlot[r] = Full(Published(r)[Len(Published(r))]))
    /\ [][\A w \in Workers :
            (wpc[w] = "read" /\ wpc'[w] = "exec")
               => /\ Len(Published(agent_role[w])) >= 1
                  /\ wtask'[w] = Full(Published(agent_role[w])
                                        [Len(Published(agent_role[w]))])]_vars

\* two publishes to one role, then the first claim: it returned the second
C6_Witness ==
    \E w \in Workers :
        /\ Len(Published(agent_role[w])) = 2
        /\ wpc[w] = "exec"
        /\ wtask[w] = Full(Published(agent_role[w])[2])
        /\ wtask[w] # Full(Published(agent_role[w])[1])
        /\ resultSlot[agent_role[w]] = Absent
        /\ \A v \in Workers \ {w} : wtask[v] = NoTask

\* C7: a captain that has stopped has attempted the publish of every entry
\* of the batch: a publish that failed did not keep the later ones from
\* being attempted.
C7_FailedPublishDoesNotAbort ==
    dpc \in {"done", "crashed"} =>
        \A i \in 1..Len(batch) :
            \/ i \in failedPub
            \/ \E k \in 1..Len(pubLog) : Pos(pubLog[k].task) = i

\* The worker computed the result of the task it read, the write of the
\* result raised, and the worker is in the handler's sleep.
ResultPending(w) ==
    /\ wpc[w] = "errsleep"
    /\ wtask[w] # NoTask
    /\ cyclePubs[w] = 0
    /\ wresult[w] = Full(execute_task(w, wtask[w].data))

\* C8: a worker whose result write failed writes that result again before
\* it goes back to polling; it does not return to idle with the result
\* unwritten.
C8_RetriesPublish ==
    [][\A w \in Workers :
          ResultPending(w) =>
             wpc'[w] \in {"errsleep", "save", "savefill", "stopped"}]_vars

\* C9: cancellation stops a worker only at the idle boundary, never between
\* the read of a task and its removal.
C9_StopsOnlyWhenIdle ==
    [][\A w \in Workers :
          (wpc[w] # "stopped" /\ wpc'[w] = "stopped") => ~InFlight(w)]_vars

\* C10: the result written for a task has status "error", the failure's
\* message in errors and no output when the generator raised, and status
\* "completed", an output and no errors when it did not.
C10_StatusMatchesOutcome ==
    \A w \in Workers :
        wpc[w] = "unlink" =>
           LET res == resultSlot[agent_role[w]].data
               raised == Raises(specialist_type[w], wtask[w].data.context)
           IN  /\ resultSlot[agent_role[w]].kind = "full"
               /\ raised =>
                    /\ res.status = "error"
                    /\ res.errors # <<>>
                    /\ \E k \in 1..Len(res.errors) :
                          res.errors[k] = ErrorMessage(wtask[w].data.context)
                    /\ res.output = "null"
               /\ ~raised =>
                    /\ res.status = "completed"
                    /\ res.output # "null"
                    /\ res.errors = <<>>

\* a result was written after the generator raised
C10_Witness ==
    \E w \in Workers :
        /\ wpc[w] = "unlink"
        /\ Raises(specialist_type[w], wtask[w].data.context)
        /\ resultSlot[agent_role[w]].kind = "full"
        /\ resultSlot[agent_role[w]].data.status = "error"


\* C11: no failure ends the poll loop.  As long as nobody interrupts a
\* worker, no step takes it out of the loop, whatever execute_task or a file
\* operation raises, and a worker that sleeps after a caught exception goes
\* nowhere but back to the exists() check of the next iteration.
C11_FailureNeverEndsLoop ==
    [][\A w \in Workers :
          /\ wpc'[w] # "stopped"
          /\ (wpc[w] = "errsleep" /\ wpc'[w] # wpc[w]) => wpc'[w] = "check"]_vars

\* A worker whose execute_task raised and whose result write failed
\* afterwards has come round to reading the task file again.
C11_Witness ==
    \E w \in Workers :
        /\ wpc[w] = "read"
        /\ wtask[w] # NoTask
        /\ wresult[w] # NoTask
        /\ wresult[w].data.status = "error"
        /\ cyclePubs[w] = 0


\* w is the only worker started with its AGENT_ROLE
SoleWorker(w) == \A v \in Workers : agent_role[v] = agent_role[w] => v = w

\* the last element of a non-empty sequence
Last(q) == q[Len(q)]

\* the result file of role r holds a finished result for description d
Delivered(r, d) ==
    /\ resultSlot[r].kind = "full"
    /\ resultSlot[r].data.task = d
    /\ resultSlot[r].data.status \in {"completed", "error"}

\* C12: the task written last for a role is delivered.  Once the captain
\* has written its whole batch, the role's only worker eventually leaves a
\* finished result that echoes the description of the last task written for
\* that role, wherever the worker was in its cycle when the task was written.
C12_LatestTaskDelivered ==
    \A w \in Workers :
        (/\ dpc = "done"
         /\ SoleWorker(w)
         /\ Published(agent_role[w]) # << >>)
        ~> Delivered(agent_role[w], Last(Published(agent_role[w])).task)


\* the role whose task file the captain's next step opens or writes
CaptainTargets ==
    IF dpc = "delegate" THEN {tasks[di].agent_role}
    ELSE IF dpc = "write" THEN {dpayload.agent} ELSE {}

\* C13: roles do not interfere.  A step of the captain changes no result
\* file and no task file other than the one of the role it delegates to; a
\* step of a worker changes no task file and no result file of another
\* role, and what the worker takes up as its task is the content of its own
\* role's task file.
C13_RolesDoNotInterfere ==
    [][/\ dpc' # dpc =>
            /\ resultSlot' = resultSlot
            /\ \A r \in AllRoles \ CaptainTargets : taskSlot'[r] = taskSlot[r]
       /\ \A w \in Workers :
            wpc'[w] # wpc[w] =>
                /\ \A r \in AllRoles \ {agent_role[w]} :
                      /\ taskSlot'[r] = taskSlot[r]
                      /\ resultSlot'[r] = resultSlot[r]
                /\ wtask'[w] # wtask[w] =>
                      wtask'[w] = taskSlot[agent_role[w]]]_vars

\* Tasks were delegated to both roles, both workers finished, and each
\* role's result file holds the result of that role's task.
C13_Witness ==
    /\ agent_role["w1"] # agent_role["w2"]
    /\ \A w \in Workers :
          /\ wpc[w] = "check"
          /\ taskSlot[agent_role[w]] = Absent
          /\ Published(agent_role[w]) # << >>
          /\ resultSlot[agent_role[w]] = wresult[w]
          /\ wresult[w] # NoTask
          /\ wresult[w].data.agent_role = agent_role[w]
          /\ wresult[w].data.task = Last(Published(agent_role[w])).task


\* C14: no unfinished result is visible.  Whatever result a result file
\* holds has status "completed" or "error", never "processing".
C14_NoProcessingResult ==
    \A r \in AllRoles :
        resultSlot[r].kind = "full" =>
            resultSlot[r].data.status \in {"completed", "error"}

\* Both result files hold a result, one of a generator that returned and
\* one of a generator that raised.
C14_Witness ==
    /\ resultSlot["qa"].kind = "full"
    /\ resultSlot["qa"].data.status = "completed"
    /\ resultSlot["security"].kind = "full"
    /\ resultSlot["security"].data.status = "error"


\* every entry of the batch was written exactly once
PublishedOnce ==
    /\ Len(pubLog) = Len(batch)
    /\ \A i \in 1..Len(batch) :
          Cardinality({k \in 1..Len(pubLog) : Pos(pubLog[k].task) = i}) = 1

\* C15: delegation is fire-and-forget.  When no file operation raises, the
\* captain reaches the end of its batch whatever the workers do, whether or
\* not a worker serves the role of a task, and by then it has written each
\* task of the batch exactly once.
C15_DelegationTerminates ==
    /\ <>(dpc = "done")
    /\ [](dpc = "done" => PublishedOnce)

\* The captain is through with a full batch while no worker ever picked up
\* a task and no result file exists.
C15_Witness ==
    /\ dpc = "done"
    /\ Len(batch) = MaxBatch
    /\ \A w \in Workers : wtask[w] = NoTask
    /\ \A r \in AllRoles : resultSlot[r] = Absent


\* C16: the persona lookup is best-effort.  Whether the flashback tool is
\* installed or not, and whether a lookup returns text or fails, the captain
\* can write the task and the worker can execute it; a task written without
\* the tool carries the empty persona text; and the result the worker built
\* has the status that executing the same task with a persona text gives.
C16_PersonaBestEffort ==
    /\ dpc = "delegate" => ENABLED DelegateOpen
    /\ \A k \in 1..Len(pubLog) :
          /\ pubLog[k].persona_context \in {"", "persona"}
          /\ ~flashback => pubLog[k].persona_context = ""
    /\ \A w \in Workers :
          /\ wpc[w] = "exec" => ENABLED WorkerExec(w)
          /\ wpc[w] \in {"save", "savefill", "unlink"} =>
                wresult[w].data.status =
                  execute_task(w, [wtask[w].data EXCEPT
                                      !.persona_context = "persona"]).status

\* Without the tool, a task was written with the empty persona text and the
\* worker wrote a finished result for it.
C16_Witness ==
    /\ ~flashback
    /\ \E w \in Workers :
          /\ wpc[w] = "unlink"
          /\ wtask[w].data.persona_context = ""
          /\ resultSlot[agent_role[w]] = wresult[w]
          /\ wresult[w].data.task = wtask[w].data.task


\* C17: an unknown role is rejected.  A worker whose AGENT_ROLE is not a
\* role of the deployment does not get past the start of its loop: it never
\* reads a task file, sleeps for a poll or processes anything.  The captain
\* writes no task file for a batch entry that names such a role, and the
\* entries with known roles are written all the same.
C17_UnknownRoleRejected ==
    /\ \A w \in Workers :
          agent_role[w] \notin Roles => wpc[w] \in {"check", "stopped"}
    /\ \A r \in AllRoles \ Roles : taskSlot[r] = Absent
    /\ \A k \in 1..Len(pubLog) : pubLog[k].agent \in Roles
    /\ dpc = "done" =>
          \A i \in 1..Len(tasks) :
              tasks[i].agent_role \in Roles =>
                  \E k \in 1..Len(pubLog) :
                      pubLog[k].task = tasks[i].task_description


\* what a reader of role r's result file gets: the result it holds, if any
ResultRead(r) ==
    IF resultSlot[r].kind = "full" THEN resultSlot[r].data ELSE NoTask

Removes(w) ==
    /\ wpc'[w] # wpc[w]
    /\ taskSlot[agent_role[w]] # Absent
    /\ taskSlot'[agent_role[w]] = Absent

\* C19: the task file is removed only after the result is written.
\* Whenever a worker removes the task file, the role's result file holds the
\* result of the task the worker read in this cycle.
C19_ResultHeldAtRemoval ==
    [][\A w \in Workers :
          Removes(w) =>
              /\ ResultRead(agent_role[w]) # NoTask
              /\ ResultRead(agent_role[w]).task = wtask[w].data.task]_vars


\* C20: a task file that does not parse is left alone.  A worker that
\* reads its task file while the file is empty or partial executes nothing:
\* the step changes no task file and no result file and keeps what the
\* worker holds, the worker sleeps, and from the sleep it goes back to the
\* exists() check.  The only worker of a role that found such a file gets
\* to execute a task once the captain has completed the file.
C20_UnparsableTaskLeftAlone ==
    /\ [][\A w \in Workers :
            /\ (/\ wpc[w] = "read"
                /\ wpc'[w] # wpc[w]
                /\ taskSlot[agent_role[w]] = Partial)
               => /\ wpc'[w] = "errsleep"
                  /\ taskSlot' = taskSlot
                  /\ resultSlot' = resultSlot
                  /\ wtask'[w] = wtask[w]
                  /\ wresult'[w] = wresult[w]
            /\ (wpc[w] = "errsleep" /\ wpc'[w] # wpc[w])
               => wpc'[w] = "check"]_vars
    /\ \A w \in Workers :
          (/\ SoleWorker(w)
           /\ wpc[w] = "errsleep"
           /\ taskSlot[agent_role[w]] = Partial)
          ~> (wpc[w] = "exec")

\* The only worker of a role read the task file while the captain was
\* between opening and writing it, and now sleeps; it has executed nothing.
C20_Witness ==
    \E w \in Workers :
        /\ SoleWorker(w)
        /\ wpc[w] = "errsleep"
        /\ taskSlot[agent_role[w]] = Partial
        /\ dpc = "write"
        /\ dpayload.agent = agent_role[w]
        /\ wtask[w] = NoTask
        /\ resultSlot[agent_role[w]] = Absent


\* C21: the saved session context counts the delegated tasks.  Whenever
\* the flashback tool has saved the session context of a run, its
\* tasks_delegated is the number of tasks whose task file the captain wrote
\* in that run.
C21_SessionCountsPublished ==
    session.kind = "full" => session.data.tasks_delegated = Len(pubLog)

==========================================================================
